---- MODULE Spec2Model ----
(***************************************************************************)
(* A model of weather.py: the command-line pipeline                        *)
(*   build_weather_query -> get_weather_data -> display                    *)
(* and the formatters display calls (lat_str, long_str, speed_str,         *)
(* direction_str, local_time, time12hr).                                   *)
(*                                                                         *)
(* Numbers that are floats in the program are fixed-point integers here:   *)
(*   coordinates      in 1/10000 of a degree   (40.7128 is 407128)         *)
(*   wind directions  in 1/100 of a degree     (11.25 is 1125)             *)
(*   temperatures     in 1/10 of a degree                                  *)
(*   wind speeds      in 1/10 of a metre per second                        *)
(* Strings the formatters build are sequences of characters and tokens;    *)
(* "deg" stands for the degree sign.                                       *)
(***************************************************************************)
EXTENDS Integers, Sequences, FiniteSets, TLC

VARIABLES
    pc,            \* position of the __main__ block
    args,          \* the Namespace parse_args returned: [city, F]
    secrets,       \* what secrets.ini holds: "ok" or "missing"
    query_url,     \* the URL build_weather_query returned, or None
    requests,      \* number of request.urlopen calls made so far
    response,      \* what the transport answered, or None
    data,          \* the bytes response.read() returned, or None
    weather_data,  \* the dict get_weather_data returned, or None
    stdout,        \* the report lines printed so far
    stderr,        \* the lines written to the error stream so far
    exit_status,   \* the process's exit status, -1 while it runs
    host,          \* the query host's time zone (module time)
    called,        \* which formatter has been applied to arg ("none" at first)
    arg,           \* the formatter's argument
    ret            \* the formatter's return value, or None

vars == <<pc, args, secrets, query_url, requests, response, data,
          weather_data, stdout, stderr, exit_status, host, called, arg, ret>>

mainVars == <<pc, args, secrets, query_url, requests, response, data,
              weather_data, stdout, stderr, exit_status>>

None == "None"

\* None where the program would hold a URL, a response, bytes or a dict
NoUrl == [base |-> None, q |-> <<>>, units |-> None, appid |-> None]
NoData == [kind |-> None, fields |-> {}, country |-> None]
NoResponse == [kind |-> None, code |-> 0, reason |-> None, body |-> NoData]
NoDict == [fields |-> {}, country |-> None]

(***************************************************************************)
(* Bounds of the model.                                                    *)
(***************************************************************************)
MaxCoordDegrees == 90     \* whole degrees of the coordinates tried
MaxDegrees == 360         \* whole degrees of the wind directions tried
MaxDays == 1              \* days of timestamps tried

(***************************************************************************)
(* Number formatting, as Python's format() does it.                        *)
(***************************************************************************)
DigitChar == <<"0", "1", "2", "3", "4", "5", "6", "7", "8", "9">>

RECURSIVE Digits(_)
\* str(n) / format(n, "d") for n >= 0
Digits(n) == IF n < 10 THEN <<DigitChar[n + 1]>>
             ELSE Digits(n \div 10) \o <<DigitChar[(n % 10) + 1]>>

\* format(n, "02"): at least two characters, zero filled
Pad2(n) == IF n < 10 THEN <<"0">> \o Digits(n) ELSE Digits(n)

\* the integer format(x, ".0f") prints for x = n/d >= 0: nearest, ties to even
RoundHalfEven(n, d) ==
    LET q == n \div d
        r == n % d
    IN  IF 2 * r < d THEN q
        ELSE IF 2 * r > d THEN q + 1
        ELSE IF q % 2 = 0 THEN q ELSE q + 1

\* int(x) for x = n/d: truncation toward zero
Trunc(n, d) == IF n >= 0 THEN n \div d ELSE -((-n) \div d)

Abs(n) == IF n >= 0 THEN n ELSE -n

(***************************************************************************)
(* Coordinates: long_str and lat_str.                                      *)
(***************************************************************************)
CoordUnit == 10000

\* longitude % 1 * 60 : Python's % takes the sign of the divisor, so the
\* result is in [0, 1) also for a negative longitude
CoordMinutes(x) == (x % CoordUnit) * 60

long_str(longitude) ==
    LET minutes == CoordMinutes(longitude)
        whole == Trunc(longitude, CoordUnit)
    IN  Digits(Abs(whole)) \o <<"deg">> \o Pad2(RoundHalfEven(minutes, CoordUnit))
        \o <<"'">> \o <<IF whole > 0 THEN "E" ELSE "W">>

lat_str(latitude) ==
    LET minutes == CoordMinutes(latitude)
        whole == Trunc(latitude, CoordUnit)
    IN  Digits(Abs(whole)) \o <<"deg">> \o Pad2(RoundHalfEven(minutes, CoordUnit))
        \o <<"'">> \o <<IF whole > 0 THEN "N" ELSE "S">>

(***************************************************************************)
(* speed_str: speed in 1/10 m/s.  Metric prints speed * 3.6 with one       *)
(* decimal (speed * 36 / 10 tenths of a km/h); otherwise the number is     *)
(* printed as it came, with the label mph.                                 *)
(***************************************************************************)
speed_str(speed, metric) ==
    IF metric
    THEN LET tenths == RoundHalfEven(speed * 36, 10)
         IN  Digits(tenths \div 10) \o <<".">> \o Digits(tenths % 10) \o <<" km/h">>
    ELSE Digits(speed \div 10) \o <<".">> \o Digits(speed % 10) \o <<" mph">>

(***************************************************************************)
(* direction_str: degrees in 1/100 of a degree.                            *)
(***************************************************************************)
\* direction_str with the first boundary compared by <= instead of <
direction_str_closed_above(degrees) ==
    IF degrees <= 1125 THEN "N"
    ELSE IF degrees < 3375 THEN "NNE"
    ELSE IF degrees < 5625 THEN "NE"
    ELSE IF degrees < 7875 THEN "ENE"
    ELSE IF degrees < 10125 THEN "E"
    ELSE IF degrees < 12375 THEN "ESE"
    ELSE IF degrees < 14625 THEN "SE"
    ELSE IF degrees < 16875 THEN "SSE"
    ELSE IF degrees < 19125 THEN "S"
    ELSE IF degrees < 21375 THEN "SSW"
    ELSE IF degrees < 23625 THEN "SW"
    ELSE IF degrees < 25875 THEN "WSW"
    ELSE IF degrees < 28125 THEN "W"
    ELSE IF degrees < 30375 THEN "WNW"
    ELSE IF degrees < 32625 THEN "NW"
    ELSE IF degrees < 34875 THEN "NNW"
    ELSE "N"

direction_str(degrees) ==
    IF degrees < 1125 THEN "N"
    ELSE IF degrees < 3375 THEN "NNE"
    ELSE IF degrees < 5625 THEN "NE"
    ELSE IF degrees < 7875 THEN "ENE"
    ELSE IF degrees < 10125 THEN "E"
    ELSE IF degrees < 12375 THEN "ESE"
    ELSE IF degrees < 14625 THEN "SE"
    ELSE IF degrees < 16875 THEN "SSE"
    ELSE IF degrees < 19125 THEN "S"
    ELSE IF degrees < 21375 THEN "SSW"
    ELSE IF degrees < 23625 THEN "SW"
    ELSE IF degrees < 25875 THEN "WSW"
    ELSE IF degrees < 28125 THEN "W"
    ELSE IF degrees < 30375 THEN "WNW"
    ELSE IF degrees < 32625 THEN "NW"
    ELSE IF degrees < 34875 THEN "NNW"
    ELSE "N"

(***************************************************************************)
(* The host's clock.  A host is [std, dst, daylight, dstNow]: its UTC      *)
(* offsets (seconds east of UTC) in standard and in daylight time, whether *)
(* its zone defines a daylight zone at all (time.daylight), and whether    *)
(* daylight time is in effect at the instants converted.                   *)
(***************************************************************************)
Hosts ==
    {[std |-> 0, dst |-> 0, daylight |-> FALSE, dstNow |-> FALSE],
     [std |-> 19800, dst |-> 19800, daylight |-> FALSE, dstNow |-> FALSE],
     [std |-> 7200, dst |-> 10800, daylight |-> TRUE, dstNow |-> FALSE],
     [std |-> 7200, dst |-> 10800, daylight |-> TRUE, dstNow |-> TRUE],
     [std |-> -18000, dst |-> -14400, daylight |-> TRUE, dstNow |-> FALSE],
     [std |-> -18000, dst |-> -14400, daylight |-> TRUE, dstNow |-> TRUE]}

\* time.timezone, time.altzone: seconds WEST of UTC
time_timezone(h) == -h.std
time_altzone(h) == -h.dst
time_daylight(h) == h.daylight

\* local_time with the host's offset subtracted instead of added
local_time_subtracting(utc_time, timezone_delta, h) ==
    LET local_offset == IF ~time_daylight(h) THEN time_timezone(h)
                        ELSE time_altzone(h)
    IN  utc_time + timezone_delta - local_offset

local_time(utc_time, timezone_delta, h) ==
    LET local_offset == IF ~time_daylight(h) THEN time_timezone(h)
                        ELSE time_altzone(h)
    IN  utc_time + timezone_delta + local_offset

\* datetime.fromtimestamp(timestamp): the host's wall clock at that instant
fromtimestamp(timestamp, h) ==
    LET wall == timestamp + (IF h.dstNow THEN h.dst ELSE h.std)
    IN  [hour |-> (wall \div 3600) % 24, minute |-> (wall \div 60) % 60]

\* time12hr without the step that turns hour 0 into 12
time12hr_keeping_zero(timestamp, h) ==
    LET date_format == fromtimestamp(timestamp, h)
        hour0 == date_format.hour
        minute == date_format.minute
        hour == IF hour0 > 12 THEN hour0 - 12 ELSE hour0
    IN  Digits(hour) \o <<":">> \o Pad2(minute)

time12hr(timestamp, h) ==
    LET date_format == fromtimestamp(timestamp, h)
        hour0 == date_format.hour
        minute == date_format.minute
        hour1 == IF hour0 > 12 THEN hour0 - 12 ELSE hour0
        hour == IF hour1 = 0 THEN 12 ELSE hour1
    IN  Digits(hour) \o <<":">> \o Pad2(minute)

(***************************************************************************)
(* build_weather_query.                                                    *)
(***************************************************************************)
BASE_URL == "http://api.openweathermap.org/data/2.5/weather"
PADDING == 20

Cities == {<<"Paris">>, <<"New", "York">>}

RECURSIVE Join(_)
\* ' '.join(city_input), as a sequence of words and spaces
Join(words) == IF Len(words) = 1 THEN <<words[1]>>
               ELSE <<words[1], " ">> \o Join(Tail(words))

\* parse.quote_plus on words of letters: every space becomes a plus sign
quote_plus(s) == [i \in 1..Len(s) |-> IF s[i] = " " THEN "+" ELSE s[i]]

build_weather_query(city_input, fahrenheit, api_key) ==
    [base |-> BASE_URL,
     q |-> quote_plus(Join(city_input)),
     units |-> IF fahrenheit THEN "imperial" ELSE "metric",
     appid |-> api_key]

(***************************************************************************)
(* What the transport can answer, and the bodies a response can carry.     *)
(***************************************************************************)
RequiredFields ==
    <<"name", "sys.country", "weather[0].description", "main.temp",
      "main.temp_min", "main.temp_max", "main.feels_like", "coord.lat",
      "coord.lon", "wind.speed", "wind.deg", "main.humidity", "clouds.all",
      "main.pressure", "visibility", "sys.sunrise", "sys.sunset", "timezone">>

Required == {RequiredFields[i] : i \in 1..Len(RequiredFields)}
AllFields == Required \cup {"wind.gust"}

MaxMissing == 1           \* fields a response body may lack
Countries == {"PS", "IL", "US"}

\* the values of the fields of a response, the same in every body
Sample ==
    [name |-> "Jerusalem", description |-> "clear sky",
     temp |-> 215, temp_min |-> 184, temp_max |-> 247, feels_like |-> 205,
     lat |-> 317683, lon |-> 352137, speed |-> 36, deg |-> 27000, gust |-> 72,
     humidity |-> 40, clouds |-> 20, pressure |-> 1013, visibility |-> 10000,
     sunrise |-> 11100, sunset |-> 57900, timezone |-> 7200]

FieldSets == {F \in SUBSET AllFields : Cardinality(AllFields \ F) <= MaxMissing}

Bodies ==
    {[kind |-> "undecodable", fields |-> {}, country |-> None],  \* not UTF-8
     [kind |-> "invalid", fields |-> {}, country |-> None]}      \* not JSON
    \cup {[kind |-> "json", fields |-> F, country |-> c] :
            F \in {G \in FieldSets : "sys.country" \in G}, c \in Countries}
    \cup {[kind |-> "json", fields |-> F, country |-> None] :
            F \in {G \in FieldSets : "sys.country" \notin G}}

Outcomes ==
    {[kind |-> "HTTPError", code |-> 401, reason |-> "Unauthorized", body |-> NoData],
     [kind |-> "HTTPError", code |-> 404, reason |-> "Not Found", body |-> NoData],
     [kind |-> "HTTPError", code |-> 500, reason |-> "Internal Server Error",
      body |-> NoData],
     [kind |-> "URLError", code |-> 0, reason |-> "Name or service not known",
      body |-> NoData]}
    \cup {[kind |-> "ok", code |-> 200, reason |-> "OK", body |-> b] : b \in Bodies}

(***************************************************************************)
(* How the process ends.                                                   *)
(***************************************************************************)
\* sys.exit(message): the message on the error stream, exit status 1
SysExit(message) ==
    /\ stderr' = Append(stderr, message)
    /\ exit_status' = 1
    /\ pc' = "exited"

\* an exception nobody catches: the interpreter prints a traceback, status 1
Uncaught(exception) ==
    /\ stderr' = stderr \o <<"Traceback (most recent call last):", exception>>
    /\ exit_status' = 1
    /\ pc' = "exited"

(***************************************************************************)
(* __main__, step 1: query_url = build_weather_query(args.city, args.F).   *)
(* _get_api_key raises KeyError when secrets.ini has no key.               *)
(***************************************************************************)
BuildWeatherQuery ==
    /\ pc = "build"
    /\ IF secrets = "missing"
       THEN /\ Uncaught("KeyError")
            /\ UNCHANGED query_url
       ELSE /\ query_url' = build_weather_query(args.city, args.F, "key")
            /\ pc' = "request"
            /\ UNCHANGED <<stderr, exit_status>>
    /\ UNCHANGED <<args, secrets, requests, response, data, weather_data,
                   stdout, host, called, arg, ret>>

(***************************************************************************)
(* get_weather_data, first try block: request.urlopen and response.read.   *)
(***************************************************************************)
\* UrlOpen with a URLError answered by asking again
UrlOpen_retrying ==
    /\ pc = "request"
    /\ requests < 3
    /\ requests' = requests + 1
    /\ \E outcome \in Outcomes :
         /\ response' = outcome
         /\ IF outcome.kind = "HTTPError"
            THEN /\ IF outcome.code = 401
                    THEN SysExit("Access denied. Check API key.")
                    ELSE IF outcome.code = 404
                    THEN SysExit("No weather data for this city.")
                    ELSE SysExit(outcome.reason)
                 /\ UNCHANGED data
            ELSE IF outcome.kind = "URLError"
            THEN UNCHANGED <<pc, stderr, exit_status, data>>
            ELSE /\ data' = outcome.body
                 /\ pc' = "loads"
                 /\ UNCHANGED <<stderr, exit_status>>
    /\ UNCHANGED <<args, secrets, query_url, weather_data, stdout,
                   host, called, arg, ret>>

UrlOpen ==
    /\ pc = "request"
    /\ requests' = requests + 1
    /\ \E outcome \in Outcomes :
         /\ response' = outcome
         /\ IF outcome.kind = "HTTPError"
            THEN /\ IF outcome.code = 401
                    THEN SysExit("Access denied. Check API key.")
                    ELSE IF outcome.code = 404
                    THEN SysExit("No weather data for this city.")
                    ELSE SysExit(outcome.reason)
                 /\ UNCHANGED data
            ELSE IF outcome.kind = "URLError"
            THEN /\ SysExit(outcome.reason)
                 /\ UNCHANGED data
            ELSE /\ data' = outcome.body
                 /\ pc' = "loads"
                 /\ UNCHANGED <<stderr, exit_status>>
    /\ UNCHANGED <<args, secrets, query_url, weather_data, stdout,
                   host, called, arg, ret>>

(***************************************************************************)
(* get_weather_data, the rest: json.loads, the country rewrite, return.    *)
(* json.loads decodes the bytes first (UnicodeDecodeError when they are    *)
(* not UTF-8, which is no JSONDecodeError), then parses the text.          *)
(***************************************************************************)
\* the country rewrite left out
NormalizeCountry_omitted(country) == country

NormalizeCountry(country) == IF country = "PS" THEN "IL" ELSE country

JsonLoads ==
    /\ pc = "loads"
    /\ IF data.kind = "undecodable"
       THEN /\ Uncaught("UnicodeDecodeError")
            /\ UNCHANGED weather_data
       ELSE IF data.kind = "invalid"
       THEN /\ SysExit("Couldn't read server response.")
            /\ UNCHANGED weather_data
       ELSE IF "sys.country" \notin data.fields
       THEN /\ Uncaught("KeyError")
            /\ UNCHANGED weather_data
       ELSE /\ weather_data' = [fields |-> data.fields,
                                country |-> NormalizeCountry(data.country)]
            /\ pc' = "display"
            /\ UNCHANGED <<stderr, exit_status>>
    /\ UNCHANGED <<args, secrets, query_url, requests, response, data, stdout,
                   host, called, arg, ret>>

(***************************************************************************)
(* display(weather_data, not args.F).  Every field is read before the      *)
(* first print, so a missing one raises KeyError with nothing printed.     *)
(***************************************************************************)
\* str.capitalize on the descriptions of the model
capitalize(s) == IF s = "clear sky" THEN "Clear sky" ELSE s

\* format(t, ".0f") of a temperature in tenths of a degree (t >= 0)
Temp0f(t) == Digits(RoundHalfEven(t, 10))

Report(wd, metric, h) ==
    LET deg == IF metric THEN "degC" ELSE "degF"
        longitude == long_str(Sample.lon)
        latitude == lat_str(Sample.lat)
        wind_speed == speed_str(Sample.speed, metric)
        direction == direction_str(Sample.deg)
        gust_speed == IF "wind.gust" \in wd.fields
                      THEN speed_str(Sample.gust, metric) ELSE <<>>
        sunrise == local_time(Sample.sunrise, Sample.timezone, h)
        sunset == local_time(Sample.sunset, Sample.timezone, h)
    IN  << [center |-> <<Sample.name, ", ", wd.country>>, width |-> PADDING,
            temp |-> Temp0f(Sample.temp), deg |-> deg,
            description |-> capitalize(Sample.description)],
           [center |-> latitude \o <<" ">> \o longitude, width |-> PADDING,
            humidity |-> Digits(Sample.humidity)],
           [width |-> PADDING, feels_like |-> Temp0f(Sample.feels_like),
            deg |-> deg],
           [width |-> PADDING, clouds |-> Digits(Sample.clouds)],
           [wind |-> wind_speed, direction |-> direction,
            gusts |-> gust_speed],
           [temp_min |-> Temp0f(Sample.temp_min),
            temp_max |-> Temp0f(Sample.temp_max), deg |-> deg,
            pressure |-> Digits(Sample.pressure)],
           [sunrise |-> time12hr(sunrise, h), sunset |-> time12hr(sunset, h),
            visibility |-> Digits(RoundHalfEven(Sample.visibility, 1000))] >>

Display ==
    /\ pc = "display"
    /\ IF Required \subseteq weather_data.fields
       THEN /\ stdout' = stdout \o Report(weather_data, ~args.F, host)
            /\ exit_status' = 0
            /\ pc' = "done"
            /\ UNCHANGED stderr
       ELSE /\ Uncaught("KeyError")
            /\ UNCHANGED stdout
    /\ UNCHANGED <<args, secrets, query_url, requests, response, data,
                   weather_data, host, called, arg, ret>>

Init ==
    /\ pc = "build"
    /\ args \in [city : Cities, F : BOOLEAN]
    /\ secrets \in {"ok", "missing"}
    /\ query_url = NoUrl
    /\ requests = 0
    /\ response = NoResponse
    /\ data = NoData
    /\ weather_data = NoDict
    /\ stdout = <<>>
    /\ stderr = <<>>
    /\ exit_status = -1
    /\ host \in Hosts
    /\ called = "none"
    /\ arg = None
    /\ ret = None

Next == BuildWeatherQuery \/ UrlOpen \/ JsonLoads \/ Display

Spec == Init /\ [][Next]_vars

(***************************************************************************)
(* The formatters on their own: the argument is drawn in the initial       *)
(* state, one action applies the function to it.                           *)
(***************************************************************************)
Idle ==
    /\ pc = "idle"
    /\ args = None
    /\ secrets = None
    /\ query_url = NoUrl
    /\ requests = 0
    /\ response = NoResponse
    /\ data = NoData
    /\ weather_data = NoDict
    /\ stdout = <<>>
    /\ stderr = <<>>
    /\ exit_status = -1
    /\ called = "none"
    /\ ret = None

\* fractional parts tried, in 1/10000 of a degree
CoordFractions == {0, 60, 5000, 7128, 9916, 9917, 9999}

CoordInputs ==
    {sign * (d * CoordUnit + f) :
        sign \in {-1, 1}, d \in 0..MaxCoordDegrees, f \in CoordFractions}

InitCoord == Idle /\ host \in {h \in Hosts : h.std = 0} /\ arg \in CoordInputs

CallLatStr ==
    /\ pc = "idle" /\ called = "none"
    /\ called' = "lat_str"
    /\ ret' = lat_str(arg)
    /\ UNCHANGED <<mainVars, host, arg>>

CallLongStr ==
    /\ pc = "idle" /\ called = "none"
    /\ called' = "long_str"
    /\ ret' = long_str(arg)
    /\ UNCHANGED <<mainVars, host, arg>>

NextCoord == CallLatStr \/ CallLongStr

SpecCoord == InitCoord /\ [][NextCoord]_vars

\* wind directions tried: every quarter of a degree
DegreeInputs == {d \in 0..(MaxDegrees * 100) : d % 25 = 0}

InitDirection ==
    Idle /\ host \in {h \in Hosts : h.std = 0} /\ arg \in DegreeInputs

CallDirectionStr ==
    /\ pc = "idle" /\ called = "none"
    /\ called' = "direction_str"
    /\ ret' = direction_str(arg)
    /\ UNCHANGED <<mainVars, host, arg>>

NextDirection == CallDirectionStr

SpecDirection == InitDirection /\ [][NextDirection]_vars

\* timestamps tried: the first and the last second of every minute
TimestampInputs ==
    {60 * k + sec : k \in 0..(MaxDays * 1440 - 1), sec \in {0, 59}}

InitTime12hr == Idle /\ host \in Hosts /\ arg \in TimestampInputs

CallTime12hr ==
    /\ pc = "idle" /\ called = "none"
    /\ called' = "time12hr"
    /\ ret' = time12hr(arg, host)
    /\ UNCHANGED <<mainVars, host, arg>>

NextTime12hr == CallTime12hr

SpecTime12hr == InitTime12hr /\ [][NextTime12hr]_vars

\* UTC timestamps (every hour) and city offsets tried
UtcTimes == {3600 * k : k \in 0..(MaxDays * 24 - 1)}
CityOffsets == {-18000, 0, 3600, 7200, 19800}

InitLocalTime ==
    /\ Idle
    /\ host \in Hosts
    /\ arg \in [utc_time : UtcTimes, timezone_delta : CityOffsets]

CallLocalTime ==
    /\ pc = "idle" /\ called = "none"
    /\ called' = "local_time"
    /\ ret' = local_time(arg.utc_time, arg.timezone_delta, host)
    /\ UNCHANGED <<mainVars, host, arg>>

NextLocalTime == CallLocalTime

SpecLocalTime == InitLocalTime /\ [][NextLocalTime]_vars

(***************************************************************************)
(* The properties.                                                         *)
(***************************************************************************)
Finished == exit_status # -1

\* C1: every classified failure of get_weather_data ends the run with its
\* own single message on the error stream, a non-zero exit status and no
\* report line: HTTP 401, HTTP 404, any other transport failure (the
\* transport's reason), and a body that cannot be parsed.
ClassifiedFailureMessages ==
    (Finished /\ response # NoResponse) =>
        /\ (response.kind = "HTTPError" /\ response.code = 401) =>
              /\ stderr = <<"Access denied. Check API key.">>
              /\ exit_status # 0 /\ stdout = <<>>
        /\ (response.kind = "HTTPError" /\ response.code = 404) =>
              /\ stderr = <<"No weather data for this city.">>
              /\ exit_status # 0 /\ stdout = <<>>
        /\ (\/ response.kind = "HTTPError" /\ response.code \notin {401, 404}
            \/ response.kind = "URLError") =>
              /\ stderr = <<response.reason>>
              /\ exit_status # 0 /\ stdout = <<>>
        /\ (response.kind = "ok" /\ data.kind \in {"undecodable", "invalid"}) =>
              /\ stderr = <<"Couldn't read server response.">>
              /\ exit_status # 0 /\ stdout = <<>>

\* C2 as stated: every invocation performs exactly one network request,
\* never retried, in the order build query -> request -> decode -> present.
OneRequestEveryInvocation ==
    /\ requests <= 1
    /\ Finished => requests = 1
    /\ requests >= 1 => query_url # NoUrl
    /\ data # NoData => requests = 1
    /\ weather_data # NoDict => (data # NoData /\ data.kind = "json")
    /\ stdout # <<>> =>
          /\ weather_data # NoDict
          /\ weather_data.country = NormalizeCountry(data.country)

\* C2, amended: an invocation whose query URL was built performs exactly one
\* network request, never retried, and one that fails before the URL is
\* built performs none; no request before the URL is built, no decoding
\* before the response bytes are read, no report line before the decode
\* (with the country rewrite) has succeeded.
OneRequestOnceQueryBuilt ==
    /\ requests <= 1
    /\ (Finished /\ query_url # NoUrl) => requests = 1
    /\ (Finished /\ query_url = NoUrl) => requests = 0
    /\ requests >= 1 => query_url # NoUrl
    /\ data # NoData => requests = 1
    /\ weather_data # NoDict => (data # NoData /\ data.kind = "json")
    /\ stdout # <<>> =>
          /\ weather_data # NoDict
          /\ weather_data.country = NormalizeCountry(data.country)

\* a run that printed its whole report after its one request
ReportAfterOneRequest ==
    pc = "done" /\ requests = 1 /\ query_url # NoUrl /\ Len(stdout) = 7

\* C3: for every successfully parsed response the record get_weather_data
\* returns has country IL when the response said PS and the response's own
\* country otherwise; the rule applied again changes nothing; the report
\* never shows PS.
CountryNormalized ==
    weather_data # NoDict =>
        /\ weather_data.country =
              (IF data.country = "PS" THEN "IL" ELSE data.country)
        /\ NormalizeCountry(weather_data.country) = weather_data.country
        /\ \A c \in Countries :
              NormalizeCountry(NormalizeCountry(c)) = NormalizeCountry(c)
        /\ stdout # <<>> =>
              /\ stdout[1].center[3] = weather_data.country
              /\ stdout[1].center[3] # "PS"

\* a response that said PS, reported as IL
ReportedPSAsIL ==
    pc = "done" /\ data.country = "PS" /\ stdout[1].center[3] = "IL"

Last(r) == r[Len(r)]

\* C4: lat_str(x) ends in N for x >= 0 and in S for x < 0; long_str(x)
\* ends in E for x >= 0 and in W for x < 0.
HemisphereLetter ==
    /\ called = "lat_str" => Last(ret) = (IF arg >= 0 THEN "N" ELSE "S")
    /\ called = "long_str" => Last(ret) = (IF arg >= 0 THEN "E" ELSE "W")

\* the two characters n is printed with, for n in 0..99
TwoDigits(n) == <<DigitChar[(n \div 10) + 1], DigitChar[(n % 10) + 1]>>

\* C5: lat_str(x) and long_str(x) show the whole degrees of |x| and the
\* two-digit minutes of the fractional part of |x| times 60 (40.7128 gives
\* 40 deg 42', -74.0060 gives 74 deg 00'), so x and -x give the same digits.
DegreesMinutesOfAbs ==
    called \in {"lat_str", "long_str"} =>
        SubSeq(ret, 1, Len(ret) - 1) =
            Digits(Abs(arg) \div CoordUnit) \o <<"deg">>
            \o TwoDigits(((Abs(arg) % CoordUnit) * 60) \div CoordUnit) \o <<"'">>

\* the number a sequence of digit characters reads as, or -1
DigitValue(c) == IF \E i \in 1..10 : DigitChar[i] = c
                 THEN (CHOOSE i \in 1..10 : DigitChar[i] = c) - 1 ELSE -1

\* the characters between the degree sign and the minute mark
MinutesField(r) ==
    LET at == CHOOSE i \in 1..Len(r) : r[i] = "deg"
    IN  SubSeq(r, at + 1, Len(r) - 2)

\* C10: the minutes field lat_str and long_str print is a two-digit number
\* in 00..59; it never reads 60.
MinutesBelowSixty ==
    called \in {"lat_str", "long_str"} =>
        LET field == MinutesField(ret)
        IN  /\ Len(field) = 2
            /\ DigitValue(field[1]) \in 0..5
            /\ DigitValue(field[2]) \in 0..9

CompassLabels ==
    <<"N", "NNE", "NE", "ENE", "E", "ESE", "SE", "SSE",
      "S", "SSW", "SW", "WSW", "W", "WNW", "NW", "NNW">>

\* C6: direction_str maps d to the label whose 22.5-degree sector, centred
\* on the label, closed below and open above, contains d: sector k (k = 0
\* for N, clockwise) is 22.5 k - 11.25 <= d < 22.5 k + 11.25, and
\* d >= 348.75 is N again.
DirectionSector ==
    called = "direction_str" =>
        /\ ret = CompassLabels[(((arg + 1125) \div 2250) % 16) + 1]
        /\ (arg < 1125 \/ arg >= 34875) => ret = "N"
        /\ (1125 <= arg /\ arg < 3375) => ret = "NNE"
        /\ (32625 <= arg /\ arg < 34875) => ret = "NNW"
        /\ arg = 0 => ret = "N"
        /\ arg = 9000 => ret = "E"
        /\ arg = 35900 => ret = "N"

\* 11.25 degrees, the lower boundary of NNE
DirectionAtBoundary ==
    called = "direction_str" /\ arg = 1125 /\ ret = "NNE"

\* C7: time12hr shows 12 for local hour 0 or 12, h for 1..11 and h - 12 for
\* 13..23, so always an hour in 1..12, then a colon and the minute as
\* exactly two digits, and nothing after them.
Time12hrDisplay ==
    called = "time12hr" =>
        LET h == fromtimestamp(arg, host).hour
            m == fromtimestamp(arg, host).minute
            shown == IF h = 0 \/ h = 12 THEN 12
                     ELSE IF h <= 11 THEN h ELSE h - 12
        IN  /\ shown \in 1..12
            /\ ret = Digits(shown) \o <<":">> \o TwoDigits(m)

\* local hour 0, minute 5: displayed as 12:05
MidnightShownAsTwelve ==
    /\ called = "time12hr"
    /\ fromtimestamp(arg, host) = [hour |-> 0, minute |-> 5]
    /\ ret = <<"1", "2", ":", "0", "5">>

\* the host's UTC offset at the instants converted
HostUTCOffset(h) == IF h.dstNow THEN h.dst ELSE h.std

\* C9 as stated: local_time returns utc_time plus the city's UTC offset plus
\* the host's own UTC offset (standard, or daylight when daylight time
\* applies): the host's offset is added, not subtracted.
LocalTimeAddsHostOffset ==
    called = "local_time" =>
        ret = arg.utc_time + arg.timezone_delta + HostUTCOffset(host)

\* C9, amended: local_time returns utc_time plus the city's UTC offset plus
\* time.timezone, or time.altzone whenever the host's zone defines a
\* daylight zone (in effect or not); both count seconds west of UTC, so the
\* host's UTC offset is subtracted, not added.
LocalTimeSubtractsHostOffset ==
    called = "local_time" =>
        ret = arg.utc_time + arg.timezone_delta
              - (IF host.daylight THEN host.dst ELSE host.std)

\* a host two hours east of UTC with a daylight zone, in standard time
LocalTimeOnEasternHost ==
    /\ called = "local_time"
    /\ host.std = 7200 /\ host.daylight /\ ~host.dstNow
    /\ ret = arg.utc_time + arg.timezone_delta - 10800

\* C8: a body that parses but lacks a required field ends the run with the
\* single message "Couldn't read server response.", a non-zero status and
\* no report line; a body that lacks only wind.gust yields the full report.
MissingFieldIsDecodeError ==
    (Finished /\ response # NoResponse /\ response.kind = "ok" /\ data.kind = "json") =>
        IF Required \subseteq data.fields
        THEN Len(stdout) = 7 /\ exit_status = 0 /\ stderr = <<>>
        ELSE /\ stderr = <<"Couldn't read server response.">>
             /\ exit_status # 0
             /\ stdout = <<>>

====
